---- MODULE Spec2Model ----
(***************************************************************************)
(* Model of app3.py, a Streamlit application: every user interaction       *)
(* re-executes the script from its first line with the new widget values,  *)
(* st.session_state is private to one browser session, and the logs/       *)
(* directory is shared by all sessions.  A script run can be interrupted   *)
(* by a new interaction only at a call into Streamlit, so the              *)
(* positions of a run are the yield points between two loop iterations and *)
(* the call of to_csv, which other sessions can observe half-way.          *)
(***************************************************************************)
EXTENDS Integers, Sequences, FiniteSets, TLC

\* ------------------------------------------------------------------ bounds
\* rows kept by base_df.head(...): stands for the 15000 of the source
HeadRows == 2
\* longest session buffer explored (the source never bounds log_data)
MaxBuf == 3
\* Start clicks explored, over all sessions
MaxStarts == 2
\* last instant of the wall clock, in ticks
MaxClock == 2
\* clock ticks per second: strftime("%H-%M-%S") drops what is below a second
TicksPerSecond == 2
\* browser sessions connected to the application
Sessions == {"s1", "s2"}

\* ------------------------------------------------------- configuration data
vehicle_ids == <<"KA-01", "KA-02", "KA-03", "KA-04", "KA-05">>

driver_mapping ==
  [v \in {"KA-01", "KA-02", "KA-03", "KA-04", "KA-05"} |->
     CASE v = "KA-01" -> "Rishab"
       [] v = "KA-02" -> "Priya"
       [] v = "KA-03" -> "Arjun"
       [] v = "KA-04" -> "Sneha"
       [] v = "KA-05" -> "Ravi"]

\* the vehicles a user picks in the explored runs (the first ones of the list)
Selectable == {vehicle_ids[1], vehicle_ids[2]}

pages == <<"Dashboard", "Live Monitoring">>

Pages == {pages[1], pages[2]}

\* sample of cleaned_obd_data_filtered.csv (values as integers)
base_df ==
  << [Timestamp |-> 1, Engine_Coolant_Temperature |-> 105,
      Intake_Manifold_Abs_Pressure |-> 200, Engine_RPM |-> 1000,
      Vehicle_Speed |-> 60, Intake_Air_Temperature |-> 30,
      Throttle_Position |-> 50, Acc_Pedal_Pos_D |-> 0],
     [Timestamp |-> 2, Engine_Coolant_Temperature |-> 90,
      Intake_Manifold_Abs_Pressure |-> 100, Engine_RPM |-> 800,
      Vehicle_Speed |-> 0, Intake_Air_Temperature |-> 25,
      Throttle_Position |-> 10, Acc_Pedal_Pos_D |-> 10],
     [Timestamp |-> 3, Engine_Coolant_Temperature |-> 95,
      Intake_Manifold_Abs_Pressure |-> 230, Engine_RPM |-> 3000,
      Vehicle_Speed |-> 3, Intake_Air_Temperature |-> 130,
      Throttle_Position |-> 20, Acc_Pedal_Pos_D |-> 40],
     [Timestamp |-> 4, Engine_Coolant_Temperature |-> 80,
      Intake_Manifold_Abs_Pressure |-> 150, Engine_RPM |-> 5000,
      Vehicle_Speed |-> 80, Intake_Air_Temperature |-> 20,
      Throttle_Position |-> 60, Acc_Pedal_Pos_D |-> 35] >>

Min(a, b) == IF a < b THEN a ELSE b

\* df = base_df.head(15000)
df == SubSeq(base_df, 1, Min(HeadRows, Len(base_df)))

\* ------------------------------------------------------------- pure helpers
factor == 70

\* (the rules as an if/elif chain: only the first rule that applies)
get_causesFirstMatch(row) ==
  IF row.Vehicle_Speed > 1 /\ row.Engine_Coolant_Temperature > 100
    THEN <<"Overheating (Coolant Temp > 100C)">>
    ELSE IF /\ row.Vehicle_Speed > 1
            /\ row.Throttle_Position < 70
            /\ row.Engine_RPM < row.Throttle_Position * factor
      THEN <<"RPM too low for throttle -> possible stall">>
      ELSE IF row.Vehicle_Speed > 1 /\ row.Intake_Manifold_Abs_Pressure > 220
        THEN <<"High manifold pressure -> possible blockage">>
        ELSE IF /\ row.Vehicle_Speed > 1
                /\ \/ row.Intake_Air_Temperature > 120
                   \/ row.Intake_Air_Temperature < -20
          THEN <<"Abnormal intake air temperature">>
          ELSE IF row.Acc_Pedal_Pos_D > 30 /\ row.Vehicle_Speed < 5
            THEN <<"Pedal pressed but vehicle not moving -> possible gear issue">>
            ELSE <<>>

\* (the four engine rules outside the test of the speed)
get_causesAnySpeed(row) ==
  (IF row.Engine_Coolant_Temperature > 100
     THEN <<"Overheating (Coolant Temp > 100C)">> ELSE <<>>)
  \o (IF /\ row.Throttle_Position < 70
         /\ row.Engine_RPM < row.Throttle_Position * factor
        THEN <<"RPM too low for throttle -> possible stall">> ELSE <<>>)
  \o (IF row.Intake_Manifold_Abs_Pressure > 220
        THEN <<"High manifold pressure -> possible blockage">> ELSE <<>>)
  \o (IF \/ row.Intake_Air_Temperature > 120
         \/ row.Intake_Air_Temperature < -20
        THEN <<"Abnormal intake air temperature">> ELSE <<>>)
  \o (IF row.Acc_Pedal_Pos_D > 30 /\ row.Vehicle_Speed < 5
        THEN <<"Pedal pressed but vehicle not moving -> possible gear issue">>
        ELSE <<>>)

\* get_causes(row): every rule that applies, in the order of the source
get_causes(row) ==
  (IF row.Vehicle_Speed > 1
     THEN (IF row.Engine_Coolant_Temperature > 100
             THEN <<"Overheating (Coolant Temp > 100C)">> ELSE <<>>)
          \o (IF /\ row.Throttle_Position < 70
                 /\ row.Engine_RPM < row.Throttle_Position * factor
                THEN <<"RPM too low for throttle -> possible stall">> ELSE <<>>)
          \o (IF row.Intake_Manifold_Abs_Pressure > 220
                THEN <<"High manifold pressure -> possible blockage">> ELSE <<>>)
          \o (IF \/ row.Intake_Air_Temperature > 120
                 \/ row.Intake_Air_Temperature < -20
                THEN <<"Abnormal intake air temperature">> ELSE <<>>)
     ELSE <<>>)
  \o (IF row.Acc_Pedal_Pos_D > 30 /\ row.Vehicle_Speed < 5
        THEN <<"Pedal pressed but vehicle not moving -> possible gear issue">>
        ELSE <<>>)

main_cause(causes) == IF causes # <<>> THEN causes[1] ELSE "None"

\* The classifier is an opaque pretrained artifact, a function of the features
\* of a row: predict gives 0 or 1 and predict_proba the probability of class 1,
\* here in units of 1/100000 (sample answers); a call may also raise.
model_predict(row) == IF row.Engine_Coolant_Temperature > 100 THEN 1 ELSE 0

model_predict_proba(row) ==
  IF row.Engine_Coolant_Temperature > 100 THEN 99995 ELSE 12345

\* (a rounding that always goes up, in place of the one of the source)
RoundTo4Wrong(p) == (p \div 10) + 1

\* round(prob, 4): to the nearest 1/10000, ties to the even neighbour
\* (the result is in units of 1/10000)
RoundTo4(p) ==
  LET q == p \div 10
      r == p % 10
  IN  IF r > 5 \/ (r = 5 /\ q % 2 = 1) THEN q + 1 ELSE q

\* datetime.now().strftime("%Y-%m-%d_%H-%M-%S"): the instant cut to its second
strftime(t) == t \div TicksPerSecond

\* os.path.join(f"logs/{vehicle}", f"{today}_log.csv")
LogPath(vehicle, today) == [folder |-> vehicle, name |-> today]

\* lines 157-163: the record appended for one reading (row_log).  Its
\* 'timestamp' (datetime.now()) is left out: only the charts read it.
RowLog(row, vehicle, driver, pred, prob) ==
  [ Timestamp |-> row.Timestamp,
    Engine_Coolant_Temperature |-> row.Engine_Coolant_Temperature,
    Intake_Manifold_Abs_Pressure |-> row.Intake_Manifold_Abs_Pressure,
    Engine_RPM |-> row.Engine_RPM,
    Vehicle_Speed |-> row.Vehicle_Speed,
    Intake_Air_Temperature |-> row.Intake_Air_Temperature,
    Throttle_Position |-> row.Throttle_Position,
    Acc_Pedal_Pos_D |-> row.Acc_Pedal_Pos_D,
    vehicle_id |-> vehicle,
    driver |-> driver,
    prediction |-> pred,
    probability |-> RoundTo4(prob),
    breakdown_cause |-> main_cause(get_causes(row)) ]

\* ------------------------------------------------------------------- state
VARIABLES
  now,               \* the wall clock (datetime.now()), in ticks
  starts,            \* Start clicks handled so far
  folders,           \* the vehicle folders that exist under logs/
  files,             \* path -> the rows the file at that path holds
  flushed,           \* path -> the buffer the last to_csv on that path was given
  page,              \* per session: the sidebar radio
  vehicle_selected,  \* per session: the sidebar selectbox
  running,           \* per session: st.session_state.running
  log_data,          \* per session: st.session_state.log_data
  pc,                \* per session: where the current script run is
  i,                 \* per session: rows of df the current run has iterated over
  button,            \* per session: the button the page shows
  error,             \* per session: the exception the last run ended with
  dash,              \* per session: what the Dashboard page shows
  log_path,          \* per session: log_path of the flush in progress
  flush_from,        \* per session: the handler whose flush is in progress
  flushes,           \* per session: to_csv calls since the last Start
  rule_input,        \* the row get_causes is applied to on its own
  rule_output        \* what get_causes and line 155 gave for it

fsVars == <<folders, files, flushed>>

sessVars ==
  <<page, vehicle_selected, running, log_data, pc, i, button, error, dash,
    log_path, flush_from, flushes>>

ruleVars == <<rule_input, rule_output>>

vars == <<now, starts, fsVars, sessVars, ruleVars>>

NotEvaluated == [causes |-> <<>>, main_cause |-> "not evaluated"]

\* the missing value of pandas
NaN == "nan"

\* the strings pd.read_csv takes for a missing value (its default na_values),
\* among those a record can hold
na_values == {"None", ""}

\* (the first line of data taken for the header)
read_csvFirstRowAsHeader(rows) == IF rows = <<>> THEN <<>> ELSE Tail(rows)

\* pd.read_csv(latest_file): the rows of the file in their order, a cause
\* written as one of na_values read as missing
read_csv(rows) ==
  [k \in 1..Len(rows) |->
     [rows[k] EXCEPT !.breakdown_cause = IF @ \in na_values THEN NaN ELSE @]]

RECURSIVE SumOfSpeed(_)
SumOfSpeed(rows) ==
  IF rows = <<>> THEN 0
  ELSE rows[1].Vehicle_Speed + SumOfSpeed(Tail(rows))

\* round(sum / n, 2), in units of 1/100, ties to the even neighbour
Round2(sum, n) ==
  LET q == (sum * 100) \div n
      r == (sum * 100) % n
  IN  IF 2 * r > n \/ (2 * r = n /\ q % 2 = 1) THEN q + 1 ELSE q

\* line 96: round(log_df['Vehicle_Speed'].mean(), 2), <<>> for the mean of
\* no row (nan)
AvgSpeed(rows) ==
  IF rows = <<>> THEN <<>> ELSE <<Round2(SumOfSpeed(rows), Len(rows))>>

NoMetrics == [total_records |-> 0, avg_speed |-> <<>>]

NoDash ==
  [status |-> "none", latest_file |-> "none", log_df |-> <<>>,
   metrics |-> NoMetrics]

\* (the least name, as an ascending sort would give)
FirstOldest(names) == CHOOSE n \in names : \A m \in names : n <= m

\* files = sorted(os.listdir(folder), reverse=True); files[0]: the greatest name
First(names) == CHOOSE n \in names : \A m \in names : m <= n

\* os.listdir(folder)
listdir(fs, folder) == {p.name : p \in {q \in DOMAIN fs : q.folder = folder}}

\* lines 82-112: the Dashboard page for one vehicle, read from the log store
Dashboard(vehicle, dirs, fs) ==
  IF vehicle \notin dirs
    THEN [status |-> "No logs found for this vehicle.",
          latest_file |-> "none", log_df |-> <<>>, metrics |-> NoMetrics]
    ELSE IF listdir(fs, vehicle) # {}
           THEN LET latest_file == LogPath(vehicle, First(listdir(fs, vehicle)))
                    log_df == read_csv(fs[latest_file])
                IN  [status |-> "Loaded log",
                     latest_file |-> latest_file,
                     log_df |-> log_df,
                     metrics |-> [total_records |-> Len(log_df),
                                  avg_speed |-> AvgSpeed(log_df)]]
           ELSE [status |-> "No log files found.",
                 latest_file |-> "none", log_df |-> <<>>,
                 metrics |-> NoMetrics]

\* the state once every session has loaded the page: the radio is at its
\* index 1, the selectbox at its first option, and the script has run once
AppInit ==
  /\ now = 0
  /\ starts = 0
  /\ folders = {}
  /\ files = <<>>
  /\ flushed = <<>>
  /\ page = [s \in Sessions |-> pages[2]]
  /\ vehicle_selected = [s \in Sessions |-> vehicle_ids[1]]
  /\ running = [s \in Sessions |-> FALSE]
  /\ log_data = [s \in Sessions |-> <<>>]
  /\ pc = [s \in Sessions |-> "done"]
  /\ i = [s \in Sessions |-> 0]
  /\ button = [s \in Sessions |-> "Start Simulation"]
  /\ error = [s \in Sessions |-> "none"]
  /\ dash = [s \in Sessions |-> NoDash]
  /\ log_path = [s \in Sessions |-> "none"]
  /\ flush_from = [s \in Sessions |-> "none"]
  /\ flushes = [s \in Sessions |-> 0]

Init ==
  /\ AppInit
  /\ rule_input = base_df[1]
  /\ rule_output = NotEvaluated

\* a script run ends (its last line, an exception, or st.rerun() into a run
\* that stops before the loop): its local variables are gone
EndRun(s, err, shown) ==
  /\ pc' = [pc EXCEPT ![s] = "done"]
  /\ i' = [i EXCEPT ![s] = 0]
  /\ log_path' = [log_path EXCEPT ![s] = "none"]
  /\ flush_from' = [flush_from EXCEPT ![s] = "none"]
  /\ error' = [error EXCEPT ![s] = err]
  /\ button' = [button EXCEPT ![s] = shown]

\* a script run reaches the loop of line 147 at the first row of df
EnterLoop(s) ==
  /\ pc' = [pc EXCEPT ![s] = "loop"]
  /\ i' = [i EXCEPT ![s] = 0]
  /\ log_path' = [log_path EXCEPT ![s] = "none"]
  /\ flush_from' = [flush_from EXCEPT ![s] = "none"]
  /\ error' = [error EXCEPT ![s] = "none"]
  /\ button' = [button EXCEPT ![s] = "Stop Simulation"]

\* ----------------------------------------------------------------- the flush
\* log_df.to_csv(log_path) opens the file, which creates or truncates it
OpenForWrite(fs, path) == (path :> <<>>) @@ fs

\* the rows a failed write leaves behind: any proper prefix of the buffer
PartialRows(buf) == {SubSeq(buf, 1, k) : k \in 0..(Len(buf) - 1)}

\* (the flag left set, as if line 130 were missing)
RunningAfterStopKept == TRUE

\* the value the handlers give st.session_state.running before they flush
RunningAfterStop == FALSE

\* (no test at all, as if line 131 were missing)
HasRecordsAlways(buf) == TRUE

\* (a test that never lets the flush happen)
HasRecordsNever(buf) == FALSE

\* the test the handlers guard the flush with: if st.session_state.log_data
HasRecords(buf) == buf # <<>>

\* lines 132-137 and 185-190, up to the call of to_csv: either the file is
\* open and being written, or opening it raised
Flush(s, vehicle, from) ==
  LET today == strftime(now)
      log_folder == vehicle
      path == LogPath(log_folder, today)
  IN  /\ folders' = folders \cup {log_folder}
      /\ \/ /\ files' = OpenForWrite(files, path)
            /\ flushed' = (path :> log_data[s]) @@ flushed
            /\ flushes' = [flushes EXCEPT ![s] = @ + 1]
            /\ pc' = [pc EXCEPT ![s] = "to_csv"]
            /\ log_path' = [log_path EXCEPT ![s] = path]
            /\ flush_from' = [flush_from EXCEPT ![s] = from]
            /\ error' = [error EXCEPT ![s] = "none"]
            /\ button' = [button EXCEPT ![s] = "Stop Simulation"]
            /\ i' = [i EXCEPT ![s] = 0]
         \/ /\ UNCHANGED <<files, flushed, flushes>>
            /\ EndRun(s, "PersistenceFailure", "Stop Simulation")
      /\ UNCHANGED log_data

\* to_csv returns: the file holds the whole buffer.  In the Stop handler
\* st.rerun() follows (the next run draws the Start button); the completion
\* flush is the end of the script, with the Stop button still on the page.
ToCsvDone(s) ==
  /\ pc[s] = "to_csv"
  /\ files' = [files EXCEPT ![log_path[s]] = log_data[s]]
  /\ EndRun(s, "none", IF flush_from[s] = "stop" THEN "Start Simulation"
                                                 ELSE "Stop Simulation")
  /\ UNCHANGED <<now, starts, folders, flushed, page, vehicle_selected, running,
                 log_data, dash, flushes, ruleVars>>

\* (a failure path that also empties the buffer)
ToCsvFailDropping(s) ==
  /\ pc[s] = "to_csv"
  /\ \E rows \in PartialRows(log_data[s]) :
       files' = [files EXCEPT ![log_path[s]] = rows]
  /\ EndRun(s, "PersistenceFailure", "Stop Simulation")
  /\ log_data' = [log_data EXCEPT ![s] = <<>>]
  /\ UNCHANGED <<now, starts, folders, flushed, page, vehicle_selected, running,
                 dash, flushes, ruleVars>>

\* to_csv raises half-way: the exception ends the script run
ToCsvFail(s) ==
  /\ pc[s] = "to_csv"
  /\ \E rows \in PartialRows(log_data[s]) :
       files' = [files EXCEPT ![log_path[s]] = rows]
  /\ EndRun(s, "PersistenceFailure", "Stop Simulation")
  /\ UNCHANGED <<now, starts, folders, flushed, page, vehicle_selected, running,
                 log_data, dash, flushes, ruleVars>>

\* ------------------------------------------------------------ one script run
\* (a Dashboard page that ends the run it interrupts and drops its buffer)
DashboardPageEndingRun(s, vehicle) ==
  /\ dash' = [dash EXCEPT ![s] = Dashboard(vehicle, folders, files)]
  /\ EndRun(s, "none", "none")
  /\ running' = [running EXCEPT ![s] = FALSE]
  /\ log_data' = [log_data EXCEPT ![s] = <<>>]
  /\ UNCHANGED <<starts, fsVars, flushes>>

\* lines 80-112: the Dashboard page only reads the log store
DashboardPage(s, vehicle) ==
  /\ dash' = [dash EXCEPT ![s] = Dashboard(vehicle, folders, files)]
  /\ EndRun(s, "none", "none")
  /\ UNCHANGED <<starts, fsVars, running, log_data, flushes>>

\* (the buffer left as it is, as if line 126 were missing)
BufferAtStartKept(buf) == buf

\* what the Start handler gives st.session_state.log_data (line 126)
BufferAtStart(buf) == <<>>

\* lines 124-127: Start sets the flag, empties the buffer and reruns; the
\* rerun draws the Stop button and enters the loop at the first row of df
StartSimulation(s) ==
  /\ starts < MaxStarts
  /\ starts' = starts + 1
  /\ running' = [running EXCEPT ![s] = TRUE]
  /\ log_data' = [log_data EXCEPT ![s] = BufferAtStart(@)]
  /\ flushes' = [flushes EXCEPT ![s] = 0]
  /\ EnterLoop(s)
  /\ UNCHANGED fsVars

\* lines 129-139: Stop clears the flag and flushes a non-empty buffer, then
\* reruns; the rerun draws the Start button and skips the loop
StopSimulation(s, vehicle) ==
  /\ running' = [running EXCEPT ![s] = RunningAfterStop]
  /\ IF HasRecords(log_data[s])
       THEN Flush(s, vehicle, "stop")
       ELSE /\ EndRun(s, "none", "Start Simulation")
            /\ UNCHANGED <<fsVars, log_data, flushes>>
  /\ UNCHANGED starts

\* lines 115-147: the Live Monitoring page, up to its first yield point
LiveMonitoring(s, vehicle, clicked) ==
  /\ dash' = [dash EXCEPT ![s] = NoDash]
  /\ IF ~running[s]
       THEN IF clicked = "Start Simulation"
              THEN StartSimulation(s)
              ELSE /\ EndRun(s, "none", "Start Simulation")
                   /\ UNCHANGED <<starts, fsVars, running, log_data, flushes>>
       ELSE IF clicked = "Stop Simulation"
              THEN StopSimulation(s, vehicle)
              ELSE \* still running: the loop starts over at the first row
                   /\ EnterLoop(s)
                   /\ UNCHANGED <<starts, fsVars, running, log_data, flushes>>

\* the script, run from its first line with the widget values of the page
RunScript(s, pg, vehicle, clicked) ==
  /\ page' = [page EXCEPT ![s] = pg]
  /\ vehicle_selected' = [vehicle_selected EXCEPT ![s] = vehicle]
  /\ IF pg = pages[1]
       THEN DashboardPage(s, vehicle)
       ELSE LiveMonitoring(s, vehicle, clicked)
  /\ UNCHANGED <<now, ruleVars>>

\* a run takes a new interaction at a yield point or once it has ended
CanInteract(s) == pc[s] \in {"done", "loop"}

\* --------------------------------------------------------------- user events
Navigate(s, pg) ==
  /\ CanInteract(s)
  /\ pg # page[s]
  /\ RunScript(s, pg, vehicle_selected[s], "none")

SelectVehicle(s, vehicle) ==
  /\ CanInteract(s)
  /\ vehicle # vehicle_selected[s]
  /\ RunScript(s, page[s], vehicle, "none")

ClickStart(s) ==
  /\ CanInteract(s)
  /\ button[s] = "Start Simulation"
  /\ RunScript(s, page[s], vehicle_selected[s], "Start Simulation")

ClickStop(s) ==
  /\ CanInteract(s)
  /\ button[s] = "Stop Simulation"
  /\ RunScript(s, page[s], vehicle_selected[s], "Stop Simulation")

\* the Rerun command of the application menu: same widget values
Rerun(s) ==
  /\ CanInteract(s)
  /\ RunScript(s, page[s], vehicle_selected[s], "none")

\* ------------------------------------------------------------------ the loop
\* lines 147-180, one iteration: the classifier answers or raises
LoopStep(s) ==
  /\ pc[s] = "loop"
  /\ i[s] < Len(df)
  /\ Len(log_data[s]) < MaxBuf
  /\ IF ~running[s]
       THEN \* line 148: break, and line 182 then skips the flush
            /\ EndRun(s, "none", button[s])
            /\ UNCHANGED log_data
       ELSE \/ LET row == df[i[s] + 1]
               IN  /\ log_data' = [log_data EXCEPT ![s] =
                        Append(@, RowLog(row, vehicle_selected[s],
                                         driver_mapping[vehicle_selected[s]],
                                         model_predict(row),
                                         model_predict_proba(row)))]
                   /\ i' = [i EXCEPT ![s] = @ + 1]
                   /\ UNCHANGED <<pc, error, button, log_path, flush_from>>
            \/ /\ EndRun(s, "ClassifierFailure", button[s])
               /\ UNCHANGED log_data
  /\ UNCHANGED <<now, starts, fsVars, page, vehicle_selected, running, dash,
                 flushes, ruleVars>>

\* The user clicks Stop while an iteration is under way.  The script thread
\* takes the click at its next call into Streamlit, not at once: the click
\* sets no flag the loop could read, so the test of line 148 cannot see it.
RequestStop(s) ==
  /\ pc[s] = "loop"
  /\ button[s] = "Stop Simulation"
  /\ i[s] < Len(df)
  /\ pc' = [pc EXCEPT ![s] = "stop_pending"]
  /\ UNCHANGED <<now, starts, fsVars, page, vehicle_selected, running, log_data,
                 i, button, error, dash, log_path, flush_from, flushes,
                 ruleVars>>

\* lines 147-164 with a click waiting: the click came before the append of
\* line 164, the iteration goes on to its first call into Streamlit (line 166)
FinishIteration(s) ==
  /\ pc[s] = "stop_pending"
  /\ i[s] < Len(df)
  /\ Len(log_data[s]) < MaxBuf
  /\ pc' = [pc EXCEPT ![s] = "stop_due"]
  /\ \/ LET row == df[i[s] + 1]
        IN  /\ log_data' = [log_data EXCEPT ![s] =
                 Append(@, RowLog(row, vehicle_selected[s],
                                  driver_mapping[vehicle_selected[s]],
                                  model_predict(row),
                                  model_predict_proba(row)))]
            /\ i' = [i EXCEPT ![s] = @ + 1]
            /\ UNCHANGED error
     \/ /\ error' = [error EXCEPT ![s] = "ClassifierFailure"]
        /\ UNCHANGED <<log_data, i>>
  /\ UNCHANGED <<now, starts, fsVars, page, vehicle_selected, running, dash,
                 button, log_path, flush_from, flushes, ruleVars>>

\* the call into Streamlit ends the run and the script starts over with the
\* click: the Stop handler of lines 129-139
HandleStop(s) ==
  /\ pc[s] \in {"stop_pending", "stop_due"}
  /\ RunScript(s, page[s], vehicle_selected[s], "Stop Simulation")

\* lines 182-191: df is exhausted while the flag is still set
Complete(s) ==
  /\ pc[s] = "loop"
  /\ i[s] = Len(df)
  /\ running[s]
  /\ running' = [running EXCEPT ![s] = RunningAfterStop]
  /\ IF HasRecords(log_data[s])
       THEN Flush(s, vehicle_selected[s], "complete")
       ELSE /\ EndRun(s, "none", button[s])
            /\ UNCHANGED <<fsVars, log_data, flushes>>
  /\ UNCHANGED <<now, starts, page, vehicle_selected, dash, ruleVars>>

\* the wall clock advances
Tick ==
  /\ now < MaxClock
  /\ now' = now + 1
  /\ UNCHANGED <<starts, fsVars, sessVars, ruleVars>>

\* everything one session can do
SessionNext(s) ==
  \/ \E pg \in Pages : Navigate(s, pg)
  \/ \E vehicle \in Selectable : SelectVehicle(s, vehicle)
  \/ ClickStart(s)
  \/ ClickStop(s)
  \/ Rerun(s)
  \/ LoopStep(s)
  \/ RequestStop(s)
  \/ FinishIteration(s)
  \/ HandleStop(s)
  \/ Complete(s)
  \/ ToCsvDone(s)
  \/ ToCsvFail(s)

\* one user at the application
Next ==
  \/ Tick
  \/ SessionNext("s1")

Spec == Init /\ [][Next]_vars

\* two users at the application, each on the vehicle the page opens with
SharedNext(s) ==
  \/ \E pg \in Pages : Navigate(s, pg)
  \/ ClickStart(s)
  \/ ClickStop(s)
  \/ LoopStep(s)
  \/ Complete(s)
  \/ ToCsvDone(s)
  \/ ToCsvFail(s)

NextShared ==
  \/ Tick
  \/ \E s \in Sessions : SharedNext(s)

SpecShared == Init /\ [][NextShared]_vars

\* --------------------------------------------- a run left to itself, fairly
\* one iteration of the loop in which the classifier answers
ClassifierAnswers(s) ==
  /\ LoopStep(s)
  /\ pc'[s] = "loop"

\* users who click Start and then leave the page alone
LiveNext(s) ==
  \/ ClickStart(s)
  \/ ClassifierAnswers(s)
  \/ Complete(s)
  \/ ToCsvDone(s)
  \/ ToCsvFail(s)

NextLive ==
  \/ Tick
  \/ \E s \in Sessions : LiveNext(s)

\* the script thread runs on: the loop goes to its next iteration, the code
\* after the loop is executed and to_csv returns or raises
Fairness ==
  \A s \in Sessions :
    /\ WF_vars(ClassifierAnswers(s))
    /\ WF_vars(Complete(s))
    /\ WF_vars(ToCsvDone(s) \/ ToCsvFail(s))

SpecLive == Init /\ [][NextLive]_vars /\ Fairness

\* ------------------------------------------------- the rule engine on its own
\* rows around every threshold of get_causes
Readings ==
  [ Timestamp : {1},
    Engine_Coolant_Temperature : {100, 101, 105},
    Intake_Manifold_Abs_Pressure : {200, 220, 221},
    Engine_RPM : {1000, 3499, 3500, 4829, 4830},
    Vehicle_Speed : {0, 1, 2, 4, 5, 60},
    Intake_Air_Temperature : {-21, -20, 30, 120, 121},
    Throttle_Position : {50, 69, 70},
    Acc_Pedal_Pos_D : {0, 30, 31} ]

InitCauses ==
  /\ AppInit
  /\ rule_input \in Readings
  /\ rule_output = NotEvaluated

\* lines 154-155 for one row
Evaluate ==
  /\ rule_output = NotEvaluated
  /\ rule_output' = [causes |-> get_causes(rule_input),
                     main_cause |-> main_cause(get_causes(rule_input))]
  /\ UNCHANGED <<now, starts, fsVars, sessVars, rule_input>>

SpecCauses == InitCauses /\ [][Evaluate]_vars

\* =================================================================== claims
\* the log a flush in progress was given
Persisting(s) == flushed[log_path[s]]

\* probability in [0,1] (in units of 1/10000) and prediction in {0,1}
WellFormed(r) ==
  /\ r.probability >= 0
  /\ r.probability <= 10000
  /\ r.prediction \in {0, 1}

\* C1: a run from Start to the exhaustion of df, with no Stop request, persists
\* a log of exactly Len(df) records, each with probability in [0,1] and
\* prediction in {0,1}, whatever else the user did in between
C1_FullRunLogsEveryReadingOnce ==
  \A s \in Sessions :
    (pc[s] = "to_csv" /\ flush_from[s] = "complete")
      => /\ Len(Persisting(s)) = Len(df)
         /\ \A k \in 1..Len(Persisting(s)) : WellFormed(Persisting(s)[k])

\* C2: between a Start and the return to Idle a session opens at most one
\* log file, however Stop clicks and the end of df interleave
C2_AtMostOneLogPerCycle == \A s \in Sessions : flushes[s] <= 1

\* C2 witness: the completion flush has written its log and the page still
\* shows the Stop button, so that a Stop click can follow the flush
C2_Witness ==
  \E s \in Sessions :
    /\ flushes[s] = 1
    /\ ~running[s]
    /\ pc[s] = "done"
    /\ button[s] = "Stop Simulation"
    /\ error[s] = "none"
    /\ \E p \in DOMAIN files : Len(files[p]) = Len(df)

C4_ClassifierFailureFlushes ==
  \A s \in Sessions :
    error[s] = "ClassifierFailure"
      => /\ ~running[s]
         /\ log_data[s] # <<>>
              => \E p \in DOMAIN flushed : flushed[p] = log_data[s]

\* C5: a flush never opens a path that already exists in the log store, and
\* a log file that holds its whole session never changes afterwards
C5_PersistKeysDistinct ==
  [][/\ \A s \in Sessions :
          (pc[s] # "to_csv" /\ pc'[s] = "to_csv")
            => log_path'[s] \notin DOMAIN files
     /\ \A p \in DOMAIN files :
          files[p] = flushed[p]
            => (p \in DOMAIN files' /\ files'[p] = files[p])]_vars

\* C6: every file of the log store holds the whole buffer its flush was
\* given, and the Dashboard never shows a log that is not whole
C6_LogFilesWhole ==
  /\ \A p \in DOMAIN files : files[p] = flushed[p]
  /\ \A s \in Sessions :
       dash[s].status = "Loaded log"
         => dash[s].log_df = read_csv(flushed[dash[s].latest_file])

\* C7: a Stop with an empty buffer leaves the log store as it was, raises
\* nothing, and the Dashboard of a vehicle without logs still reports that
\* no logs were found
C7_EmptyStopIsNoOp ==
  [][\A s \in Sessions :
       (running[s] /\ ~running'[s] /\ log_data[s] = <<>>)
         => /\ files' = files
            /\ folders' = folders
            /\ error'[s] = "none"
            /\ pc'[s] = "done"
            /\ \A v \in Selectable :
                 v \notin folders
                   => Dashboard(v, folders', files').status
                        = "No logs found for this vehicle."]_vars

\* C7 witness: Start then Stop before any reading, then the Dashboard of the
\* vehicle, which has no logs
C7_Witness ==
  \E s \in Sessions :
    /\ starts = 1
    /\ ~running[s]
    /\ log_data[s] = <<>>
    /\ page[s] = pages[1]
    /\ dash[s].status = "No logs found for this vehicle."
    /\ folders = {}

\* C8: when a write fails the exception is shown, the run ends without a
\* second attempt, and the buffer is the one the write was given
C8_WriteFailureKeepsBuffer ==
  [][\A s \in Sessions :
       (error[s] # "PersistenceFailure" /\ error'[s] = "PersistenceFailure")
         => /\ log_data'[s] = log_data[s]
            /\ pc[s] = "to_csv" => log_data'[s] = flushed[log_path[s]]
            /\ pc'[s] = "done"
            /\ ~running'[s]
            /\ flushes'[s] = flushes[s]]_vars

\* C8 witness: a write has failed half-way, leaving a shorter file, and the
\* buffer still holds its records
C8_Witness ==
  \E s \in Sessions :
    /\ error[s] = "PersistenceFailure"
    /\ log_data[s] # <<>>
    /\ \E p \in DOMAIN files :
         /\ flushed[p] = log_data[s]
         /\ Len(files[p]) < Len(log_data[s])

\* C9: no two sessions are Running with the same selected vehicle
C9_OneRunningSessionPerVehicle ==
  \A s, t \in Sessions :
    (s # t /\ running[s] /\ running[t])
      => vehicle_selected[s] # vehicle_selected[t]

\* C10: while the controller stays Running the selected vehicle stays the
\* one selected at Start
C10_VehicleFixedWhileRunning ==
  [][\A s \in Sessions :
       (running[s] /\ running'[s])
         => vehicle_selected'[s] = vehicle_selected[s]]_vars

\* the tags of the rule engine, in their fixed order
TagOrder ==
  << "Overheating (Coolant Temp > 100C)",
     "RPM too low for throttle -> possible stall",
     "High manifold pressure -> possible blockage",
     "Abnormal intake air temperature",
     "Pedal pressed but vehicle not moving -> possible gear issue" >>

\* the predicate of each tag
RuleHolds(tag, r) ==
  CASE tag = TagOrder[1] ->
         r.Vehicle_Speed > 1 /\ r.Engine_Coolant_Temperature > 100
    [] tag = TagOrder[2] ->
         /\ r.Vehicle_Speed > 1
         /\ r.Throttle_Position < 70
         /\ r.Engine_RPM < r.Throttle_Position * 70
    [] tag = TagOrder[3] ->
         r.Vehicle_Speed > 1 /\ r.Intake_Manifold_Abs_Pressure > 220
    [] tag = TagOrder[4] ->
         /\ r.Vehicle_Speed > 1
         /\ (r.Intake_Air_Temperature > 120 \/ r.Intake_Air_Temperature < -20)
    [] tag = TagOrder[5] ->
         r.Acc_Pedal_Pos_D > 30 /\ r.Vehicle_Speed < 5

TagsThatHold(r) ==
  LET Holds(tag) == RuleHolds(tag, r) IN SelectSeq(TagOrder, Holds)

ScenarioReading ==
  [ Timestamp |-> 1, Engine_Coolant_Temperature |-> 105,
    Intake_Manifold_Abs_Pressure |-> 200, Engine_RPM |-> 1000,
    Vehicle_Speed |-> 60, Intake_Air_Temperature |-> 30,
    Throttle_Position |-> 50, Acc_Pedal_Pos_D |-> 0 ]

\* C11: the rule engine returns exactly the tags whose predicates hold, in the
\* fixed order, the primary cause is the first of them or "None"; the
\* scenario reading gives Overheating then RPM too low, and speed 2 with
\* coolant 101 gives Overheating first
C11_AllRulesFireInOrder ==
  rule_output # NotEvaluated
    => /\ rule_output.causes = TagsThatHold(rule_input)
       /\ rule_output.main_cause =
            (IF TagsThatHold(rule_input) = <<>> THEN "None"
                                              ELSE TagsThatHold(rule_input)[1])
       /\ rule_input = ScenarioReading
            => /\ rule_output.causes = <<TagOrder[1], TagOrder[2]>>
               /\ rule_output.main_cause = TagOrder[1]
       /\ (rule_input.Vehicle_Speed = 2
             /\ rule_input.Engine_Coolant_Temperature = 101)
            => rule_output.causes[1] = TagOrder[1]

\* C11 witness: the scenario reading has been evaluated
C11_Witness ==
  /\ rule_input = ScenarioReading
  /\ rule_output # NotEvaluated
  /\ Len(rule_output.causes) = 2

\* C12: a reading with speed <= 1 and pedal D <= 30 gets no tag at all
C12_StandingAndNoPedalIsEmpty ==
  (/\ rule_output # NotEvaluated
   /\ rule_input.Vehicle_Speed <= 1
   /\ rule_input.Acc_Pedal_Pos_D <= 30)
    => rule_output.causes = <<>>

\* C12 witness: such a reading, hot and with a high manifold pressure, has
\* been evaluated
C12_Witness ==
  /\ rule_output # NotEvaluated
  /\ rule_input.Vehicle_Speed <= 1
  /\ rule_input.Acc_Pedal_Pos_D <= 30
  /\ rule_input.Engine_Coolant_Temperature > 100
  /\ rule_input.Intake_Manifold_Abs_Pressure > 220
  /\ rule_output.main_cause = "None"

\* the names of the logs of a vehicle that a flush wrote whole
PersistedNames(vehicle) ==
  {p.name : p \in {q \in DOMAIN files :
                     q.folder = vehicle /\ files[q] = flushed[q]}}

\* C13: the Dashboard shows the persisted log of the vehicle with the most
\* recent stop timestamp, and shows "not found" exactly when no log has been
\* persisted for the vehicle
C13_LatestIsLatestPersistedLog ==
  \A s \in Sessions :
    dash[s] # NoDash =>
      LET vehicle == vehicle_selected[s]
          persisted == PersistedNames(vehicle)
      IN  /\ (dash[s].status = "Loaded log") <=> (persisted # {})
          /\ persisted # {} =>
               /\ dash[s].latest_file = LogPath(vehicle, First(persisted))
               /\ dash[s].log_df = read_csv(flushed[dash[s].latest_file])

C15_IterationFromFirstHasEmptyBuffer ==
  [][\A s \in Sessions :
       /\ (running'[s] /\ log_data[s] # <<>> /\ log_data'[s] = <<>>)
            => ~running[s]
       /\ (pc'[s] = "loop" /\ i'[s] = 0) => log_data'[s] = <<>>]_vars

\* C16: once Stop has been requested the session pulls no further reading
\* and appends no further record (the log flushed then holds the records the
\* buffer had at the request)
C16_NoRecordAfterStopRequest ==
  [][\A s \in Sessions :
       pc[s] \in {"stop_pending", "stop_due"}
         => /\ log_data'[s] = log_data[s]
            /\ i'[s] <= i[s]]_vars

C18_DashboardIsReadOnly ==
  [][\A s \in Sessions :
       (page'[s] = pages[1] /\ pc'[s] = "done")
         => /\ running'[s] = running[s]
            /\ log_data'[s] = log_data[s]
            /\ files' = files
            /\ folders' = folders
            /\ flushed' = flushed]_vars

\* C18 witness: the Dashboard shows a log to a session that is running with
\* records in its buffer
C18_Witness ==
  \E s \in Sessions :
    /\ page[s] = pages[1]
    /\ dash[s].status = "Loaded log"
    /\ running[s]
    /\ log_data[s] # <<>>
    /\ log_data[s] # files[dash[s].latest_file]

\* C19: the buffer of a session is a prefix of the enriched df: its k-th
\* record comes from the k-th row of df and it is never longer than df
C19_BufferIsPrefixOfSource ==
  \A s \in Sessions :
    /\ Len(log_data[s]) <= Len(df)
    /\ \A k \in 1..Len(log_data[s]) :
         k <= Len(df) => log_data[s][k].Timestamp = df[k].Timestamp

\* C20: every record of a file under logs/<v>/ carries vehicle_id v and the
\* driver of v
C20_LogRecordsBelongToFolder ==
  \A p \in DOMAIN files :
    \A k \in 1..Len(files[p]) :
      /\ files[p][k].vehicle_id = p.folder
      /\ files[p][k].driver = driver_mapping[p.folder]

====
